---- MODULE Spec2Model ----
(***************************************************************************)
(* A model of the expression-language REPL of src/main.rs: the chumsky     *)
(* parser (parser, lines 30-110), the tree-walking evaluator (eval, lines  *)
(* 112-171) run as an explicit-stack machine, and the exec / repl drivers  *)
(* (lines 173-221).                                                        *)
(*                                                                         *)
(* Source text is a sequence of one-character strings.  An f64 is modelled *)
(* as a sign / magnitude rational [s, n, d]: d = 0 with n = 1 is an        *)
(* infinity, n = 0 with d = 0 is NaN, n = 0 with d = 1 is a signed zero.   *)
(* Rounding is not modelled: the arithmetic is the IEEE arithmetic on      *)
(* every result that is representable.                                     *)
(***************************************************************************)
EXTENDS Integers, Sequences, FiniteSets, TLC

(***************************************************************************)
(* Characters                                                              *)
(***************************************************************************)
Digits == <<"0", "1", "2", "3", "4", "5", "6", "7", "8", "9">>

Letters ==
  {"a", "b", "c", "d", "e", "f", "g", "h", "i", "j", "k", "l", "m", "n", "o",
   "p", "q", "r", "s", "t", "u", "v", "w", "x", "y", "z",
   "A", "B", "C", "D", "E", "F", "G", "H", "I", "J", "K", "L", "M", "N", "O",
   "P", "Q", "R", "S", "T", "U", "V", "W", "X", "Y", "Z"}

IsWhitespace(c) == c \in {" ", "\t", "\n", "\r"}

IsDigit(c) == \E k \in 1..Len(Digits) : Digits[k] = c

DigitValue(c) == (CHOOSE k \in 1..Len(Digits) : Digits[k] = c) - 1

IsIdentStart(c) == c \in Letters \/ c = "_"

IsIdentCont(c) == c \in Letters \/ c = "_" \/ IsDigit(c)

(***************************************************************************)
(* f64 values and the five arithmetic operators of eval                    *)
(***************************************************************************)
RECURSIVE Gcd(_, _)
Gcd(a, b) == IF b = 0 THEN a ELSE Gcd(b, a % b)

NaN == [s |-> 1, n |-> 0, d |-> 0]

Norm(s, n, d) ==
  IF n = 0 /\ d = 0 THEN NaN
  ELSE IF d = 0 THEN [s |-> s, n |-> 1, d |-> 0]
  ELSE IF n = 0 THEN [s |-> s, n |-> 0, d |-> 1]
  ELSE [s |-> s, n |-> n \div Gcd(n, d), d |-> d \div Gcd(n, d)]

FromNat(k) == [s |-> 1, n |-> k, d |-> 1]

FNeg(a) == IF a = NaN THEN NaN ELSE [a EXCEPT !.s = 0 - a.s]

FAdd(a, b) ==
  IF a = NaN \/ b = NaN THEN NaN
  ELSE IF a.d = 0 /\ b.d = 0 THEN (IF a.s = b.s THEN a ELSE NaN)
  ELSE IF a.d = 0 THEN a
  ELSE IF b.d = 0 THEN b
  ELSE LET num == a.s * a.n * b.d + b.s * b.n * a.d
       IN  IF num = 0 THEN [s |-> IF a.s = b.s THEN a.s ELSE 1, n |-> 0, d |-> 1]
           ELSE IF num > 0 THEN Norm(1, num, a.d * b.d)
           ELSE Norm(0 - 1, 0 - num, a.d * b.d)

FSub(a, b) == FAdd(a, FNeg(b))

FMul(a, b) == Norm(a.s * b.s, a.n * b.n, a.d * b.d)

FDiv(a, b) == Norm(a.s * b.s, a.n * b.d, a.d * b.n)

(***************************************************************************)
(* enum Expr                                                               *)
(***************************************************************************)
Num(x) == [t |-> "Num", x |-> x]
Var(name) == [t |-> "Var", name |-> name]
Neg(a) == [t |-> "Neg", a |-> a]
Add(a, b) == [t |-> "Add", a |-> a, b |-> b]
Sub(a, b) == [t |-> "Sub", a |-> a, b |-> b]
Mul(a, b) == [t |-> "Mul", a |-> a, b |-> b]
Div(a, b) == [t |-> "Div", a |-> a, b |-> b]
Call(name, args) == [t |-> "Call", name |-> name, args |-> args]
Let(name, rhs, then) == [t |-> "Let", name |-> name, rhs |-> rhs, then |-> then]
Fn(name, args, body, then) ==
  [t |-> "Fn", name |-> name, args |-> args, body |-> body, then |-> then]

(***************************************************************************)
(* The parser.  A parser applied to source s at position i (1-based index  *)
(* of the next character) gives [ok |-> TRUE, pos, out] or Fail.  `or` is  *)
(* ordered choice, `repeated` is greedy, a failed attempt consumes nothing.*)
(***************************************************************************)
Fail == [ok |-> FALSE]
Ok(pos, out) == [ok |-> TRUE, pos |-> pos, out |-> out]

RECURSIVE SkipWs(_, _)
SkipWs(s, i) ==
  IF i <= Len(s) /\ IsWhitespace(s[i]) THEN SkipWs(s, i + 1) ELSE i

RECURSIVE IdentEnd(_, _)
IdentEnd(s, i) ==
  IF i <= Len(s) /\ IsIdentCont(s[i]) THEN IdentEnd(s, i + 1) ELSE i

RECURSIVE DigitsEnd(_, _)
DigitsEnd(s, i) ==
  IF i <= Len(s) /\ IsDigit(s[i]) THEN DigitsEnd(s, i + 1) ELSE i

\* just(c)
just(c, s, i) == IF i <= Len(s) /\ s[i] = c THEN Ok(i + 1, c) ELSE Fail

\* text::ident(): a letter or underscore, then letters, digits, underscores
text_ident(s, i) ==
  IF i <= Len(s) /\ IsIdentStart(s[i])
  THEN Ok(IdentEnd(s, i + 1), SubSeq(s, i, IdentEnd(s, i + 1) - 1))
  ELSE Fail

\* text::keyword(k): an identifier that is exactly k
text_keyword(k, s, i) ==
  LET r == text_ident(s, i)
  IN  IF r.ok /\ r.out = k THEN Ok(r.pos, <<>>) ELSE Fail

\* text::int(10): a non-zero digit followed by digits, or a single "0"
text_int(s, i) ==
  IF i <= Len(s) /\ IsDigit(s[i]) /\ s[i] # "0"
  THEN Ok(DigitsEnd(s, i + 1), SubSeq(s, i, DigitsEnd(s, i + 1) - 1))
  ELSE IF i <= Len(s) /\ s[i] = "0" THEN Ok(i + 1, <<"0">>)
  ELSE Fail

\* str::parse::<f64> on a string of decimal digits
RECURSIVE ParseF64(_)
ParseF64(ds) ==
  IF ds = <<>> THEN 0
  ELSE 10 * ParseF64(SubSeq(ds, 1, Len(ds) - 1)) + DigitValue(ds[Len(ds)])

\* p.then(q): q runs where p stopped, and the pair fails when either fails
then_(r, q(_)) == IF r.ok THEN q(r) ELSE Fail

\* p.or(q): ordered choice, q is tried only when p failed
or_(r, alt) == IF r.ok THEN r ELSE alt

\* the whitespace after a padded parser's match
padded_end(r, s) == IF r.ok THEN Ok(SkipWs(s, r.pos), r.out) ELSE Fail

\* ident as it would be were `let` and `fn` reserved words
ident_reserved(s, i) ==
  IF text_keyword(<<"l", "e", "t">>, s, SkipWs(s, i)).ok
       \/ text_keyword(<<"f", "n">>, s, SkipWs(s, i)).ok
  THEN Fail
  ELSE padded_end(text_ident(s, SkipWs(s, i)), s)

\* let ident = text::ident().padded()
ident(s, i) == padded_end(text_ident(s, SkipWs(s, i)), s)

\* .map(|s: String| Expr::Num(s.parse().unwrap()))
map_Num(r) == IF r.ok THEN Ok(r.pos, Num(FromNat(ParseF64(r.out)))) ELSE Fail

\* let int = text::int(10).map(Expr::Num(..)).padded()
int(s, i) == padded_end(map_Num(text_int(s, SkipWs(s, i))), s)

\* let op = |c| just(c).padded()
op(c, s, i) == padded_end(just(c, s, SkipWs(s, i)), s)

RECURSIVE expr(_, _)
RECURSIVE unary(_, _)
RECURSIVE productRest(_, _, _)
RECURSIVE sumRest(_, _, _)
RECURSIVE separatedRest(_, _, _)

\* one more `, item` of a separated_by; with allow_trailing a `,` that no item
\* follows stays consumed
separatedItem(s, i, items, c) ==
  IF ~c.ok THEN Ok(i, items)
  ELSE then_(or_(expr(s, c.pos), Ok(0, <<>>)),
             LAMBDA e : IF e.pos = 0 THEN Ok(c.pos, items)
                        ELSE separatedRest(s, e.pos, Append(items, e.out)))

separatedRest(s, i, items) == separatedItem(s, i, items, just(",", s, i))

\* expr.separated_by(just(',')).allow_trailing()
separated_by(s, i) ==
  then_(or_(expr(s, i), Ok(0, <<>>)),
        LAMBDA e : IF e.pos = 0 THEN Ok(i, <<>>)
                   ELSE separatedRest(s, e.pos, <<e.out>>))

\* let call = ident.then(args.delimited_by(just('('), just(')'))).map(Call)
call(s, i) ==
  then_(ident(s, i), LAMBDA f :
  then_(just("(", s, f.pos), LAMBDA l :
  then_(separated_by(s, l.pos), LAMBDA a :
  then_(just(")", s, a.pos), LAMBDA r : Ok(r.pos, Call(f.out, a.out))))))

\* expr.delimited_by(just('('), just(')'))
parens(s, i) ==
  then_(just("(", s, i), LAMBDA l :
  then_(expr(s, l.pos), LAMBDA e :
  then_(just(")", s, e.pos), LAMBDA r : Ok(r.pos, e.out))))

\* ident.map(Expr::Var)
map_Var(r) == IF r.ok THEN Ok(r.pos, Var(r.out)) ELSE Fail

\* let atom = int.or(parens).or(call).or(ident.map(Expr::Var))
atom(s, i) ==
  or_(int(s, i), or_(parens(s, i), or_(call(s, i), map_Var(ident(s, i)))))

\* .foldr(|_op, rhs| Expr::Neg(Box::new(rhs)))
foldr_Neg(r) == IF r.ok THEN Ok(r.pos, Neg(r.out)) ELSE Fail

\* after the `-` signs matched so far: one more sign, or the atom
unarySign(s, i, m) == IF m.ok THEN foldr_Neg(unary(s, m.pos)) ELSE atom(s, i)

\* let unary = op('-').repeated().then(atom).foldr(Neg)
unary(s, i) == unarySign(s, i, op("-", s, i))

\* .foldl(|lhs, (op, rhs)| op(Box::new(lhs), Box::new(rhs)))
foldl(lhs, o, rhs) ==
  CASE o = "*" -> Mul(lhs, rhs)
    [] o = "/" -> Div(lhs, rhs)
    [] o = "+" -> Add(lhs, rhs)
    [] o = "-" -> Sub(lhs, rhs)

\* one more `op unary` of a product, when x matched one
productItem(s, i, lhs, x) ==
  IF x.ok THEN productRest(s, x.pos, foldl(lhs, x.out[1], x.out[2]))
  ELSE Ok(i, lhs)

\* op('*').to(Mul).or(op('/').to(Div)).then(unary).repeated()
productRest(s, i, lhs) ==
  productItem(s, i, lhs,
    then_(or_(op("*", s, i), op("/", s, i)), LAMBDA o :
    then_(unary(s, o.pos), LAMBDA r : Ok(r.pos, <<o.out, r.out>>))))

\* let product = unary.then(..repeated()).foldl(..)
product(s, i) == then_(unary(s, i), LAMBDA u : productRest(s, u.pos, u.out))

\* sumItem folding to the right: a - b - c as a - (b - c)
sumItemRightAssoc(s, i, lhs, x) ==
  IF x.ok
  THEN then_(sumRest(s, x.pos, x.out[2]),
             LAMBDA rest : Ok(rest.pos, foldl(lhs, x.out[1], rest.out)))
  ELSE Ok(i, lhs)

\* one more `op product` of a sum, when x matched one
sumItem(s, i, lhs, x) ==
  IF x.ok THEN sumRest(s, x.pos, foldl(lhs, x.out[1], x.out[2]))
  ELSE Ok(i, lhs)

\* op('+').to(Add).or(op('-').to(Sub)).then(product).repeated()
sumRest(s, i, lhs) ==
  sumItem(s, i, lhs,
    then_(or_(op("+", s, i), op("-", s, i)), LAMBDA o :
    then_(product(s, o.pos), LAMBDA r : Ok(r.pos, <<o.out, r.out>>))))

\* let sum = product.then(..repeated()).foldl(..)
sum(s, i) == then_(product(s, i), LAMBDA p : sumRest(s, p.pos, p.out))

\* let expr = recursive(|expr| .. sum)
expr(s, i) == sum(s, i)

RECURSIVE repeatedIdent(_, _, _, _)
\* ident.repeated()
repeatedIdent(s, i, names, r) ==
  IF r.ok THEN repeatedIdent(s, r.pos, Append(names, r.out), ident(s, r.pos))
  ELSE Ok(i, names)

repeated_ident(s, i) == repeatedIdent(s, i, <<>>, ident(s, i))

RECURSIVE decl(_, _)

\* text::keyword("let") ident '=' expr ';' decl
let_expr(s, i) ==
  then_(text_keyword(<<"l", "e", "t">>, s, i), LAMBDA k :
  then_(ident(s, k.pos), LAMBDA name :
  then_(just("=", s, name.pos), LAMBDA eq :
  then_(expr(s, eq.pos), LAMBDA rhs :
  then_(just(";", s, rhs.pos), LAMBDA semi :
  then_(decl(s, semi.pos), LAMBDA then :
    Ok(then.pos, Let(name.out, rhs.out, then.out))))))))

\* text::keyword("fn") ident ident* '=' expr ';' decl
fn_expr(s, i) ==
  then_(text_keyword(<<"f", "n">>, s, i), LAMBDA k :
  then_(ident(s, k.pos), LAMBDA name :
  then_(repeated_ident(s, name.pos), LAMBDA args :
  then_(just("=", s, args.pos), LAMBDA eq :
  then_(expr(s, eq.pos), LAMBDA body :
  then_(just(";", s, body.pos), LAMBDA semi :
  then_(decl(s, semi.pos), LAMBDA then :
    Ok(then.pos, Fn(name.out, args.out, body.out, then.out)))))))))

\* the three alternatives of a declaration, tried at j
decl_alternatives(s, j) == or_(let_expr(s, j), or_(fn_expr(s, j), expr(s, j)))

\* let decl = recursive(|decl| let_expr.or(fn_expr).or(expr).padded())
decl(s, i) == padded_end(decl_alternatives(s, SkipWs(s, i)), s)

\* decl.then_ignore(end()), applied by exec to the whole line
ParseEnd(s, r) ==
  IF r.ok /\ r.pos = Len(s) + 1 THEN [ok |-> TRUE, ast |-> r.out]
  ELSE [ok |-> FALSE]

parser(s) == ParseEnd(s, decl(s, 1))

(***************************************************************************)
(* The evaluator.  eval's recursion is run on an explicit stack of frames, *)
(* one per active call of eval that is waiting for a nested call: the node *)
(* `e` it evaluates, the point `at` it waits at, and its locals.  `entry`  *)
(* and `bound` are history fields (the variable stack when the activation  *)
(* began, the bindings a Call appended); the code has no such values.      *)
(***************************************************************************)
OkR(v) == [ok |-> TRUE, v |-> v]
ErrR(e) == [ok |-> FALSE, err |-> e]

\* format!("Cannot find variable `{}` in scope", name)
CannotFindVariable(name) ==
  [msg |-> "Cannot find variable in scope", name |-> name]

\* format!("Cannot find function `{}` in scope", name)
CannotFindFunction(name) ==
  [msg |-> "Cannot find function in scope", name |-> name]

\* the arity message with its two counts exchanged
WrongNumberOfArgumentsSwapped(name, expected, found) ==
  [msg |-> "Wrong number of arguments for function", name |-> name,
   expected |-> found, found |-> expected]

\* format!("Wrong number of arguments for function `{}`: expected {}, found {}", ..)
WrongNumberOfArguments(name, expected, found) ==
  [msg |-> "Wrong number of arguments for function", name |-> name,
   expected |-> expected, found |-> found]

\* stack.iter().rev().find(|entry| entry.name == name): index of the match, or 0
RECURSIVE rfind(_, _, _)
rfind(stack, name, k) ==
  IF k = 0 THEN 0
  ELSE IF stack[k].name = name THEN k
  ELSE rfind(stack, name, k - 1)

\* a lookup that takes the oldest entry of the name
FindVarOldest(vs, name) ==
  IF \E k \in 1..Len(vs) : vs[k].name = name
  THEN CHOOSE k \in 1..Len(vs) :
         vs[k].name = name /\ \A j \in 1..(k - 1) : vs[j].name # name
  ELSE 0

FindVar(vs, name) == rfind(vs, name, Len(vs))

\* a lookup that misses the entry pushed last
FindFuncBelowTop(fs, name) == IF fs = <<>> THEN 0 ELSE rfind(fs, name, Len(fs) - 1)

FindFunc(fs, name) == rfind(fs, name, Len(fs))

\* the arithmetic operator of a binary node
Apply(t, a, b) ==
  CASE t = "Add" -> FAdd(a, b)
    [] t = "Sub" -> FSub(a, b)
    [] t = "Mul" -> FMul(a, b)
    [] t = "Div" -> FDiv(a, b)

\* Vec::truncate(len)
Truncate(v, len) == IF len >= Len(v) THEN v ELSE SubSeq(v, 1, len)

\* Vec::pop
Pop(v) == IF v = <<>> THEN v ELSE SubSeq(v, 1, Len(v) - 1)

Frame(e, at, entry) ==
  [e |-> e, at |-> at, entry |-> entry, a |-> NaN, args |-> <<>>,
   callee |-> <<>>, bound |-> <<>>]

Eval(e) == [m |-> "eval", e |-> e]
Ret(r) == [m |-> "ret", r |-> r]
Idle == [m |-> "idle"]

BinaryTags == {"Add", "Sub", "Mul", "Div"}

(***************************************************************************)
(* Bounds                                                                  *)
(***************************************************************************)
\* eval activations the native stack holds before the process overflows
MaxDepth == 10
\* whitespace characters inserted at one place of a source line
MaxPad == 1

(***************************************************************************)
(* Source lines typed at the prompt.  A line is written as a sequence of   *)
(* tokens and spelled out into characters.                                 *)
(***************************************************************************)
Spell(tok) ==
  CASE tok = "let" -> <<"l", "e", "t">>
    [] tok = "fn" -> <<"f", "n">>
    [] tok = "add" -> <<"a", "d", "d">>
    [] OTHER -> <<tok>>

RECURSIVE Src(_)
Src(toks) == IF toks = <<>> THEN <<>> ELSE Spell(Head(toks)) \o Src(Tail(toks))

RECURSIVE Spaces(_)
Spaces(n) == IF n = 0 THEN <<>> ELSE <<" ">> \o Spaces(n - 1)

\* toks with n spaces put between token k and token k + 1
Padded(toks, k, n) ==
  Src(SubSeq(toks, 1, k)) \o Spaces(n) \o Src(SubSeq(toks, k + 1, Len(toks)))

Programs ==
  << <<"let", " ", "x", " ", "=", " ", "1", ";", " ", "let", " ", "x", " ", "=", " ", "2", ";", " ", "x">>,
     <<"fn", " ", "add", " ", "a", " ", "b", " ", "=", " ", "a", "+", "b", ";", " ", "add", "(", "1", ")">>,
     <<"fn", " ", "f", " ", "n", " ", "=", " ", "f", "(", "n", ")", ";", " ", "f", "(", "0", ")">>,
     <<"let", " ", "x", " ", "=", " ", "5", ";", " ", "fn", " ", "f", " ", "y", " ", "=", " ", "x", "+", "y", ";", " ", "f", "(", "1", ")">>,
     <<"fn", " ", "f", " ", "x", "=", "x", ";", "f", "(", "1", ")", "+", "x">>,
     <<"fn", " ", "f", " ", "y", "=", "y", ";", "let", " ", "x", "=", "1", ";", "f", "(", "2", ")">>,
     <<"fn", " ", "g", " ", "y", "=", "0", ";", "fn", " ", "f", " ", "y", "=", "g", "(", "9", ")", "+", "y", ";", "f", "(", "1", ")">>,
     <<"fn", " ", "g", " ", "x", "=", "0", ";", "fn", " ", "f", " ", "y", "=", "g", "(", "9", ")", "+", "x", ";", "let", " ", "x", "=", "5", ";", "f", "(", "1", ")">>,
     <<"fn", " ", "f", " ", "a", " ", "b", "=", "a", ";", "f", "(", "x", ",", "y", ")">>,
     <<"fn", " ", "f", " ", "a", " ", "b", "=", "a", ";", "f", "(", "x", ")">>,
     <<"fn", " ", "f", " ", "a", "=", "a", ";", "fn", " ", "f", " ", "a", " ", "b", "=", "a", ";", "f", "(", "1", ")">>,
     <<"fn", " ", "f", " ", "a", " ", "b", "=", "a", ";", "fn", " ", "f", " ", "a", "=", "a", "*", "2", ";", "f", "(", "3", ")">>,
     <<"f", "(", "1", ")">>,
     <<"fn", " ", "f", " ", "a", "=", "g", "(", "a", ")", ";", "f", "(", "1", ")">>,
     <<"fn", " ", "f", " ", "a", "=", "a", ";", "g", "(", "1", ")">>,
     <<"fn", " ", "f", " ", "a", "=", "a", "+", "1", ";", "f", "(", "f", "(", "1", ")", ")">>,
     <<"fn", " ", "f", " ", "a", "=", "a", ";", "fn", " ", "g", " ", "b", "=", "f", "(", "b", ")", "*", "b", ";", "g", "(", "2", ")">>,
     <<"let", " ", "x", "=", "y", ";", "x">>,
     <<"let", " ", "x", "=", "1", ";", "y">>,
     <<"fn", " ", "f", " ", "a", "=", "b", ";", "f", "(", "1", ")">>,
     <<"fn", " ", "f", " ", "x", "=", "0", ";", "let", " ", "x", "=", "1", ";", "let", " ", "x", "=", "2", ";", "f", "(", "7", ")", "+", "x">>,
     <<"let", " ", "x", "=", "1", ";", "let", " ", "y", "=", "x", "+", "1", ";", "x", "*", "y", "-", "x">>,
     <<"fn", " ", "f", "=", "7", ";", "f", "(", ")">>,
     <<"fn", " ", "f", " ", "a", " ", "b", "=", "a", "-", "b", ";", "f", "(", "1", ",", "2", ",", ")">>,
     <<"fn", " ", "f", " ", "a", " ", "b", "=", "a", "-", "b", ";", "f", "(", "1", ",", "2", ")">>,
     <<"let", " ", "let", " ", "=", " ", "1", ";", " ", "let">>,
     <<"fn", " ", "+", " ", "1">>,
     <<"fn", " ", "f", " ", "let", " ", "=", " ", "let", ";", " ", "f", "(", "1", ")">>,
     <<"fn", " ", "fn", "=", "1", ";", "fn", "(", ")">>,
     <<"let", " ", "fn", "=", "2", ";", "fn", "*", "let", "(", "fn", ")">>,
     <<"let">>,
     <<"1", " ", "+", " ", "(", "2">>,
     <<"1", "/", "0">>,
     <<"-", "1", "/", "0">>,
     <<"0", "/", "0", "+", "1">>,
     <<"1", "/", "(", "0", "*", "-", "1", ")">>,
     <<"1", "0", "/", "4", "+", "1", "/", "4">>,
     <<"0", "1">>,
     <<"1", " ", "2">>,
     <<"x", "+", "y">>,
     <<"1", "+", "x", "*", "y">>,
     <<"-", "x">>
  >>

\* the atoms the arithmetic lines are built from
Atoms ==
  << <<"1">>, <<"2">>, <<"3">>, <<"x">>, <<"y">>, <<"(", "4", ")">>, <<"f", "(", ")">> >>

AtomIdx == 1..Len(Atoms)

ArithLine(form, a, b, c) ==
  CASE form = "a-b-c" -> Src(Atoms[a] \o <<"-">> \o Atoms[b] \o <<"-">> \o Atoms[c])
    [] form = "a/b/c" -> Src(Atoms[a] \o <<"/">> \o Atoms[b] \o <<"/">> \o Atoms[c])
    [] form = "a+b*c" -> Src(Atoms[a] \o <<"+">> \o Atoms[b] \o <<"*">> \o Atoms[c])
    [] form = "a*b+c" -> Src(Atoms[a] \o <<"*">> \o Atoms[b] \o <<"+">> \o Atoms[c])
    [] form = "-a*b" -> Src(<<"-">> \o Atoms[a] \o <<"*">> \o Atoms[b])
    [] form = "--a" -> Src(<<"-", "-">> \o Atoms[a])

ArithLines ==
  {ArithLine(form, a, b, c) :
     form \in {"a-b-c", "a/b/c", "a+b*c", "a*b+c"}, a \in AtomIdx, b \in AtomIdx, c \in AtomIdx}
  \cup {ArithLine("-a*b", a, b, 1) : a \in AtomIdx, b \in AtomIdx}
  \cup {ArithLine("--a", a, 1, 1) : a \in AtomIdx}

\* lines written with the least whitespace, to be given more
Compact ==
  << <<"let", " ", "x", "=", "f", "(", "1", ",", "2", ")", ";", "x", "+", "(", "3", ")", "*", "x">>,
     <<"fn", " ", "f", " ", "a", " ", "b", "=", "(", "a", ")", "-", "b", ";", "f", "(", "(", "1", ")", ",", "-", "2", ")">>,
     <<"f", "(", ")">>,
     <<"(", "(", "1", ")", ")">>,
     <<"let", " ", "x", "=", "(", "1", ")", ";", "x">> >>

PaddedLines ==
  UNION {{Padded(Compact[p], k, n) : k \in 0..Len(Compact[p]), n \in 1..MaxPad} :
           p \in 1..Len(Compact)}

Lines == {Src(Programs[p]) : p \in 1..Len(Programs)} \cup ArithLines \cup PaddedLines

(***************************************************************************)
(* State                                                                   *)
(***************************************************************************)
VARIABLES
  pc,            \* where the REPL is: prompt, parse, eval, done, exit, crashed
  line,          \* the line read by repl and handed to exec
  parse_result,  \* parser().parse(line)
  ctl,           \* the evaluator's control: a node to evaluate or a result returned
  kont,          \* the frames of eval's active calls, innermost last
  vars,          \* eval's variable stack
  funcs,         \* eval's function stack
  out,           \* what exec printed for the line
  last           \* history: the step just taken, its node and its entry stack

sv == <<pc, line, parse_result, ctl, kont, vars, funcs, out, last>>

Step(act, e, entry) == [act |-> act, e |-> e, entry |-> entry]

Top == kont[Len(kont)]

Push(fr) == Append(kont, fr)

ReplaceTop(fr) == [kont EXCEPT ![Len(kont)] = fr]

Init ==
  /\ pc = "prompt"
  /\ line = <<>>
  /\ parse_result = [ok |-> FALSE]
  /\ ctl = Idle
  /\ kont = <<>>
  /\ vars = <<>>
  /\ funcs = <<>>
  /\ out = [kind |-> "none"]
  /\ last = Step("Init", <<>>, <<>>)

\* repl: rl.readline(">> ") gives Ok(line)
ReadLine ==
  /\ pc = "prompt"
  /\ \E l \in Lines : line' = l
  /\ pc' = "parse"
  /\ last' = Step("ReadLine", <<>>, <<>>)
  /\ UNCHANGED <<parse_result, ctl, kont, vars, funcs, out>>

\* repl: rl.readline(">> ") gives Err(_): leave the loop
Quit ==
  /\ pc = "prompt"
  /\ pc' = "exit"
  /\ last' = Step("Quit", <<>>, <<>>)
  /\ UNCHANGED <<line, parse_result, ctl, kont, vars, funcs, out>>

\* exec: parse the line; evaluate the tree with two new stacks, or report
Parse ==
  /\ pc = "parse"
  /\ parse_result' = parser(line)
  /\ IF parse_result'.ok
     THEN /\ pc' = "eval"
          /\ ctl' = Eval(parse_result'.ast)
          /\ out' = out
     ELSE /\ pc' = "done"
          /\ ctl' = Idle
          /\ out' = [kind |-> "syntax error"]
  /\ kont' = <<>>
  /\ vars' = <<>>
  /\ funcs' = <<>>
  /\ last' = Step("Parse", <<>>, <<>>)
  /\ UNCHANGED line

Evaluating(tags) ==
  /\ pc = "eval"
  /\ ctl.m = "eval"
  /\ ctl.e.t \in tags
  /\ Len(kont) < MaxDepth

Returning(tags, ats) ==
  /\ pc = "eval"
  /\ ctl.m = "ret"
  /\ kont # <<>>
  /\ Top.e.t \in tags
  /\ Top.at \in ats

\* Expr::Num(x) => Ok(*x)
EvalNum ==
  /\ Evaluating({"Num"})
  /\ ctl' = Ret(OkR(ctl.e.x))
  /\ last' = Step("EvalNum", ctl.e, vars)
  /\ UNCHANGED <<pc, line, parse_result, kont, vars, funcs, out>>

\* Expr::Neg(a): call eval(a)
EvalNeg ==
  /\ Evaluating({"Neg"})
  /\ kont' = Push(Frame(ctl.e, "a", vars))
  /\ ctl' = Eval(ctl.e.a)
  /\ last' = Step("EvalNeg", ctl.e, vars)
  /\ UNCHANGED <<pc, line, parse_result, vars, funcs, out>>

\* Expr::Neg(a) => Ok(-eval(a, vars, funcs)?)
RetNeg ==
  /\ Returning({"Neg"}, {"a"})
  /\ ctl' = IF ctl.r.ok THEN Ret(OkR(FNeg(ctl.r.v))) ELSE ctl
  /\ kont' = Pop(kont)
  /\ last' = Step("RetNeg", Top.e, Top.entry)
  /\ UNCHANGED <<pc, line, parse_result, vars, funcs, out>>

\* Expr::Add / Sub / Mul / Div (a, b): call eval(a)
EvalBin ==
  /\ Evaluating(BinaryTags)
  /\ kont' = Push(Frame(ctl.e, "a", vars))
  /\ ctl' = Eval(ctl.e.a)
  /\ last' = Step("EvalBin", ctl.e, vars)
  /\ UNCHANGED <<pc, line, parse_result, vars, funcs, out>>

\* a left operand whose Err does not return from the node: b is evaluated too
RetBinLeftEager ==
  /\ Returning(BinaryTags, {"a"})
  /\ kont' = ReplaceTop([Top EXCEPT !.at = "b",
                                    !.a = IF ctl.r.ok THEN ctl.r.v ELSE NaN])
  /\ ctl' = Eval(Top.e.b)
  /\ last' = Step("RetBinLeft", Top.e, Top.entry)
  /\ UNCHANGED <<pc, line, parse_result, vars, funcs, out>>

\* eval(a, vars, funcs)? : an Err returns from the node, an Ok goes on to eval(b)
RetBinLeft ==
  /\ Returning(BinaryTags, {"a"})
  /\ IF ctl.r.ok
     THEN /\ kont' = ReplaceTop([Top EXCEPT !.at = "b", !.a = ctl.r.v])
          /\ ctl' = Eval(Top.e.b)
     ELSE /\ kont' = Pop(kont)
          /\ ctl' = ctl
  /\ last' = Step("RetBinLeft", Top.e, Top.entry)
  /\ UNCHANGED <<pc, line, parse_result, vars, funcs, out>>

\* Ok(a op eval(b, vars, funcs)?)
RetBinRight ==
  /\ Returning(BinaryTags, {"b"})
  /\ ctl' = IF ctl.r.ok THEN Ret(OkR(Apply(Top.e.t, Top.a, ctl.r.v))) ELSE ctl
  /\ kont' = Pop(kont)
  /\ last' = Step("RetBinRight", Top.e, Top.entry)
  /\ UNCHANGED <<pc, line, parse_result, vars, funcs, out>>

\* Expr::Var(name): the innermost entry of vars with that name
EvalVar ==
  /\ Evaluating({"Var"})
  /\ ctl' = IF FindVar(vars, ctl.e.name) # 0
            THEN Ret(OkR(vars[FindVar(vars, ctl.e.name)].val))
            ELSE Ret(ErrR(CannotFindVariable(ctl.e.name)))
  /\ last' = Step("EvalVar", ctl.e, vars)
  /\ UNCHANGED <<pc, line, parse_result, kont, vars, funcs, out>>

\* Expr::Let: call eval(rhs)
EvalLet ==
  /\ Evaluating({"Let"})
  /\ kont' = Push(Frame(ctl.e, "rhs", vars))
  /\ ctl' = Eval(ctl.e.rhs)
  /\ last' = Step("EvalLet", ctl.e, vars)
  /\ UNCHANGED <<pc, line, parse_result, vars, funcs, out>>

\* let rhs = eval(rhs, vars, funcs)?; vars.push((name, rhs)); call eval(then)
RetLetRhs ==
  /\ Returning({"Let"}, {"rhs"})
  /\ IF ctl.r.ok
     THEN /\ vars' = Append(vars, [name |-> Top.e.name, val |-> ctl.r.v])
          /\ kont' = ReplaceTop([Top EXCEPT !.at = "then"])
          /\ ctl' = Eval(Top.e.then)
     ELSE /\ vars' = vars
          /\ kont' = Pop(kont)
          /\ ctl' = ctl
  /\ last' = Step("RetLetRhs", Top.e, Top.entry)
  /\ UNCHANGED <<pc, line, parse_result, funcs, out>>

\* let output = eval(then, vars, funcs); vars.pop(); output
RetLetThen ==
  /\ Returning({"Let"}, {"then"})
  /\ vars' = Pop(vars)
  /\ kont' = Pop(kont)
  /\ last' = Step("RetLetThen", Top.e, Top.entry)
  /\ UNCHANGED <<pc, line, parse_result, ctl, funcs, out>>

\* vars.append(&mut args), which empties args; call eval(body)
EnterBody(callers, fr) ==
  /\ vars' = vars \o fr.args
  /\ kont' = Append(callers, [fr EXCEPT !.at = "body", !.args = <<>>, !.bound = fr.args])
  /\ ctl' = Eval(fr.callee.body)

\* Expr::Call(name, args): find the function, check the arity, start on the arguments
EvalCall ==
  /\ Evaluating({"Call"})
  /\ LET k == FindFunc(funcs, ctl.e.name)
         fr == [Frame(ctl.e, "args", vars) EXCEPT !.callee = funcs[k]]
     IN  IF k = 0
         THEN /\ ctl' = Ret(ErrR(CannotFindFunction(ctl.e.name)))
              /\ UNCHANGED <<kont, vars>>
         ELSE IF Len(funcs[k].arg_names) # Len(ctl.e.args)
         THEN /\ ctl' = Ret(ErrR(WrongNumberOfArguments(
                           ctl.e.name, Len(funcs[k].arg_names), Len(ctl.e.args))))
              /\ UNCHANGED <<kont, vars>>
         ELSE IF ctl.e.args = <<>>
         THEN EnterBody(kont, fr)
         ELSE /\ kont' = Push(fr)
              /\ ctl' = Eval(ctl.e.args[1])
              /\ vars' = vars
  /\ last' = Step("EvalCall", ctl.e, vars)
  /\ UNCHANGED <<pc, line, parse_result, funcs, out>>

\* one argument evaluated: `val?` returns an Err from the node; an Ok is
\* collected with its parameter name, and after the last one the body is entered
RetCallArg ==
  /\ Returning({"Call"}, {"args"})
  /\ IF ~ctl.r.ok
     THEN /\ kont' = Pop(kont)
          /\ ctl' = ctl
          /\ vars' = vars
     ELSE LET n == Len(Top.args) + 1
              fr == [Top EXCEPT !.args = Append(Top.args,
                        [name |-> Top.callee.arg_names[n], val |-> ctl.r.v])]
          IN  IF n < Len(Top.e.args)
              THEN /\ kont' = ReplaceTop(fr)
                   /\ ctl' = Eval(Top.e.args[n + 1])
                   /\ vars' = vars
              ELSE EnterBody(Pop(kont), fr)
  /\ last' = Step("RetCallArg", Top.e, Top.entry)
  /\ UNCHANGED <<pc, line, parse_result, funcs, out>>

\* let output = eval(body, ..); vars.truncate(vars.len() - args.len()); output
RetCallBody ==
  /\ Returning({"Call"}, {"body"})
  /\ vars' = Truncate(vars, Len(vars) - Len(Top.args))
  /\ kont' = Pop(kont)
  /\ last' = Step("RetCallBody", Top.e, Top.entry)
  /\ UNCHANGED <<pc, line, parse_result, ctl, funcs, out>>

\* Expr::Fn: funcs.push((name, args, body)); call eval(then)
EvalFn ==
  /\ Evaluating({"Fn"})
  /\ funcs' = Append(funcs, [name |-> ctl.e.name, arg_names |-> ctl.e.args,
                             body |-> ctl.e.body])
  /\ kont' = Push(Frame(ctl.e, "then", vars))
  /\ ctl' = Eval(ctl.e.then)
  /\ last' = Step("EvalFn", ctl.e, vars)
  /\ UNCHANGED <<pc, line, parse_result, vars, out>>

\* let output = eval(then, vars, funcs); funcs.pop(); output
RetFn ==
  /\ Returning({"Fn"}, {"then"})
  /\ funcs' = Pop(funcs)
  /\ kont' = Pop(kont)
  /\ last' = Step("RetFn", Top.e, Top.entry)
  /\ UNCHANGED <<pc, line, parse_result, ctl, vars, out>>

\* exec: the outermost eval returned; print the result or the error
ExecFinish ==
  /\ pc = "eval"
  /\ ctl.m = "ret"
  /\ kont = <<>>
  /\ out' = [kind |-> "eval", r |-> ctl.r]
  /\ pc' = "done"
  /\ ctl' = Idle
  /\ vars' = <<>>
  /\ funcs' = <<>>
  /\ last' = Step("ExecFinish", <<>>, vars)
  /\ UNCHANGED <<line, parse_result, kont>>

\* repl: back to the prompt; nothing of the line survives
Loop ==
  /\ pc = "done"
  /\ pc' = "prompt"
  /\ line' = <<>>
  /\ parse_result' = [ok |-> FALSE]
  /\ out' = [kind |-> "none"]
  /\ last' = Step("Init", <<>>, <<>>)
  /\ UNCHANGED <<ctl, kont, vars, funcs>>

\* eval recursed deeper than the native stack allows: the process dies
StackOverflow ==
  /\ pc = "eval"
  /\ ctl.m = "eval"
  /\ Len(kont) >= MaxDepth
  /\ pc' = "crashed"
  /\ last' = Step("StackOverflow", ctl.e, vars)
  /\ UNCHANGED <<line, parse_result, ctl, kont, vars, funcs, out>>

Next ==
  \/ ReadLine
  \/ Quit
  \/ Parse
  \/ EvalNum
  \/ EvalNeg
  \/ RetNeg
  \/ EvalBin
  \/ RetBinLeft
  \/ RetBinRight
  \/ EvalVar
  \/ EvalLet
  \/ RetLetRhs
  \/ RetLetThen
  \/ EvalCall
  \/ RetCallArg
  \/ RetCallBody
  \/ EvalFn
  \/ RetFn
  \/ ExecFinish
  \/ Loop
  \/ StackOverflow

Spec == Init /\ [][Next]_sv

(***************************************************************************)
(* Properties                                                              *)
(***************************************************************************)
Name(tok) == Spell(tok)
N(k) == Num([s |-> 1, n |-> k, d |-> 1])
Printed(r) == [kind |-> "eval", r |-> r]
Value(k) == [ok |-> TRUE, v |-> [s |-> IF k < 0 THEN 0 - 1 ELSE 1,
                                  n |-> IF k < 0 THEN 0 - k ELSE k, d |-> 1]]
Ratio(n, d) == [ok |-> TRUE, v |-> [s |-> 1, n |-> n \div Gcd(n, d), d |-> d \div Gcd(n, d)]]
Unbound(name) == [ok |-> FALSE, err |-> [msg |-> "Cannot find variable in scope", name |-> name]]
Undefined(name) == [ok |-> FALSE, err |-> [msg |-> "Cannot find function in scope", name |-> name]]
Arity(name, expected, found) ==
  [ok |-> FALSE, err |-> [msg |-> "Wrong number of arguments for function",
                          name |-> name, expected |-> expected, found |-> found]]

\* the entries of stack named name, by index
Named(stack, name) == {k \in 1..Len(stack) : stack[k].name = name}

\* what a name resolves to in stack when the innermost entry wins
Innermost(stack, name) ==
  IF Named(stack, name) = {} THEN Unbound(name)
  ELSE [ok |-> TRUE,
        v |-> stack[CHOOSE k \in Named(stack, name) :
                      \A j \in Named(stack, name) : j <= k].val]

\* the frames of the Fn nodes whose `then` is being evaluated
FnFrames == SelectSeq(kont, LAMBDA fr : fr.e.t = "Fn")

\* the frames of the calls whose body is being evaluated
BodyFrames == SelectSeq(kont, LAMBDA fr : fr.e.t = "Call" /\ fr.at = "body")

\* C1: when eval returns from a Call whose function was found with the right
\* arity, the variable stack is the stack the Call was entered with, whether
\* the body succeeded, the body failed or an argument failed.
C1_CallRestoresStack ==
  (last.act = "RetCallBody" \/ (last.act = "RetCallArg" /\ ctl.m = "ret"))
    => vars = last.entry

\* C2: when eval returns from a Let, the variable stack is the stack the Let
\* was entered with, whether rhs failed, `then` failed or `then` succeeded.
C2_LetRestoresStack ==
  (last.act = "RetLetThen" \/ (last.act = "RetLetRhs" /\ ctl.m = "ret"))
    => vars = last.entry

\* C3: Var(name) gives the value of the last pushed entry of the variable
\* stack with that name and the unbound-variable error only when there is
\* none; `let x = 1; let x = 2; x` evaluates to 2.
C3_VarResolvesInnermost ==
  /\ last.act = "EvalVar" => ctl = Ret(Innermost(vars, last.e.name))
  /\ (pc = "done" /\ line = Src(Programs[1])) => out = Printed(Value(2))

C3_Witness ==
  /\ last.act = "EvalVar"
  /\ \E i \in 1..Len(vars) : \E j \in (i + 1)..Len(vars) :
       /\ vars[i].name = last.e.name
       /\ vars[j].name = last.e.name
       /\ vars[i].val # vars[j].val
       /\ ctl = Ret(OkR(vars[j].val))

\* C4: a Call whose innermost function of that name declares another number
\* of parameters than the arguments supplied fails with the arity error
\* (name, declared count, supplied count) before any argument is evaluated,
\* and leaves the variable stack as it was.
C4_ArityMismatch ==
  last.act = "EvalCall" =>
    \A k \in 1..Len(FnFrames) :
      ( /\ FnFrames[k].e.name = last.e.name
        /\ \A j \in (k + 1)..Len(FnFrames) : FnFrames[j].e.name # last.e.name
        /\ Len(FnFrames[k].e.args) # Len(last.e.args) )
      => /\ ctl = Ret(Arity(last.e.name, Len(FnFrames[k].e.args), Len(last.e.args)))
         /\ vars = last.entry

C4_Witness ==
  /\ last.act = "EvalCall"
  /\ ctl.m = "ret"
  /\ ctl.r = Arity(Name("f"), 2, 1)
  /\ last.e.args[1].t = "Var"
  /\ Named(vars, last.e.args[1].name) = {}

\* C5: a function is callable exactly while the `then` of its Fn is being
\* evaluated: the function stack holds the Fn nodes whose `then` is running,
\* a Call of such a name never fails as undefined (also from inside the
\* function's own body), and a Call of any other name does.
C5_CallableDuringThen ==
  /\ Len(funcs) = Len(FnFrames)
  /\ \A k \in 1..Len(funcs) :
       /\ funcs[k].name = FnFrames[k].e.name
       /\ funcs[k].arg_names = FnFrames[k].e.args
       /\ funcs[k].body = FnFrames[k].e.body
  /\ last.act = "EvalCall" =>
       ((\E k \in 1..Len(FnFrames) : FnFrames[k].e.name = last.e.name)
          <=> ctl # Ret(Undefined(last.e.name)))

C5_Witness ==
  /\ last.act = "EvalCall"
  /\ ctl.m = "eval"
  /\ Len(BodyFrames) >= 2
  /\ \A k \in 1..Len(BodyFrames) : BodyFrames[k].e.name = last.e.name

\* C6: while a function body is evaluated the parameter bindings sit on top
\* of the caller's stack: a Var in the body that names a parameter gives that
\* parameter's argument, and any other Var gives the caller's innermost
\* binding at the time of the call.
C6_DynamicScope ==
  (last.act = "EvalVar" /\ BodyFrames # <<>>) =>
    LET body == BodyFrames[Len(BodyFrames)]
    IN  ctl = Ret(Innermost(body.entry \o body.bound, last.e.name))

\* a tree without declarations and without functions in scope: the error of
\* the first failing node in left-to-right, depth-first order
RECURSIVE FirstFailure(_)
FirstFailure(e) ==
  CASE e.t = "Num" -> [ok |-> TRUE]
    [] e.t = "Var" -> Unbound(e.name)
    [] e.t = "Call" -> Undefined(e.name)
    [] e.t = "Neg" -> FirstFailure(e.a)
    [] OTHER -> IF FirstFailure(e.a).ok THEN FirstFailure(e.b) ELSE FirstFailure(e.a)

\* C7: evaluation is left to right and the first error short-circuits: once a
\* node has failed, nothing more is evaluated and every enclosing node
\* returns that same error, up to exec; of two failing operands or arguments
\* the left one's error is the result.
C7_FirstErrorShortCircuits ==
  /\ [][(pc = "eval" /\ ctl.m = "ret" /\ ~ctl.r.ok) =>
          \/ (pc' = "eval" /\ ctl' = ctl /\ kont' = Pop(kont))
          \/ (pc' = "done" /\ out' = Printed(ctl.r))]_sv
  /\ [](( /\ pc = "done"
          /\ parse_result.ok
          /\ parse_result.ast.t \notin {"Let", "Fn"}
          /\ ~FirstFailure(parse_result.ast).ok )
        => out = Printed(FirstFailure(parse_result.ast)))
  /\ []((pc = "done" /\ line = Src(Programs[9])) => out = Printed(Unbound(Name("x"))))

C7_Witness ==
  /\ last.act = "RetBinLeft"
  /\ ctl = Ret(Unbound(Name("x")))
  /\ last.e.b.t = "Var"
  /\ last.e.b.name = Name("y")
  /\ Named(vars, Name("y")) = {}

\* the tree of an atom of the arithmetic lines
AtomAst(k) ==
  CASE k = 1 -> N(1)
    [] k = 2 -> N(2)
    [] k = 3 -> N(3)
    [] k = 4 -> Var(Name("x"))
    [] k = 5 -> Var(Name("y"))
    [] k = 6 -> N(4)
    [] k = 7 -> Call(Name("f"), <<>>)

\* the numeric atoms and their values
NumAtoms == {1, 2, 3, 6}
AtomNum(k) == IF k = 6 THEN 4 ELSE k

\* each arithmetic line with the tree precedence and associativity give it
ArithTrees ==
  {<<ArithLine("a-b-c", a, b, c), Sub(Sub(AtomAst(a), AtomAst(b)), AtomAst(c))>> :
     a \in AtomIdx, b \in AtomIdx, c \in AtomIdx}
  \cup {<<ArithLine("a/b/c", a, b, c), Div(Div(AtomAst(a), AtomAst(b)), AtomAst(c))>> :
     a \in AtomIdx, b \in AtomIdx, c \in AtomIdx}
  \cup {<<ArithLine("a+b*c", a, b, c), Add(AtomAst(a), Mul(AtomAst(b), AtomAst(c)))>> :
     a \in AtomIdx, b \in AtomIdx, c \in AtomIdx}
  \cup {<<ArithLine("a*b+c", a, b, c), Add(Mul(AtomAst(a), AtomAst(b)), AtomAst(c))>> :
     a \in AtomIdx, b \in AtomIdx, c \in AtomIdx}
  \cup {<<ArithLine("-a*b", a, b, 1), Mul(Neg(AtomAst(a)), AtomAst(b))>> :
     a \in AtomIdx, b \in AtomIdx}
  \cup {<<ArithLine("--a", a, 1, 1), Neg(Neg(AtomAst(a)))>> : a \in AtomIdx}

\* each numeric arithmetic line with its value in ordinary arithmetic
ArithValues ==
  {<<ArithLine("a-b-c", a, b, c), Value(AtomNum(a) - AtomNum(b) - AtomNum(c))>> :
     a \in NumAtoms, b \in NumAtoms, c \in NumAtoms}
  \cup {<<ArithLine("a/b/c", a, b, c), Ratio(AtomNum(a), AtomNum(b) * AtomNum(c))>> :
     a \in NumAtoms, b \in NumAtoms, c \in NumAtoms}
  \cup {<<ArithLine("a+b*c", a, b, c), Value(AtomNum(a) + AtomNum(b) * AtomNum(c))>> :
     a \in NumAtoms, b \in NumAtoms, c \in NumAtoms}
  \cup {<<ArithLine("a*b+c", a, b, c), Value(AtomNum(a) * AtomNum(b) + AtomNum(c))>> :
     a \in NumAtoms, b \in NumAtoms, c \in NumAtoms}
  \cup {<<ArithLine("-a*b", a, b, 1), Value(0 - AtomNum(a) * AtomNum(b))>> :
     a \in NumAtoms, b \in NumAtoms}
  \cup {<<ArithLine("--a", a, 1, 1), Value(AtomNum(a))>> : a \in NumAtoms}

\* C8: unary minus binds tighter than * and /, which bind tighter than + and
\* -, and the four binary operators associate to the left: a-b-c, a/b/c,
\* a+b*c, a*b+c, -a*b and --a parse to the trees that says, and a line of
\* numbers evaluates to its value in ordinary arithmetic.
C8_PrecedenceAndAssociativity ==
  /\ last.act = "Parse" =>
       \A c \in ArithTrees : c[1] = line => parse_result = [ok |-> TRUE, ast |-> c[2]]
  /\ pc = "done" => \A c \in ArithValues : c[1] = line => out = Printed(c[2])

C8_Witness ==
  /\ pc = "done"
  /\ line = ArithLine("a-b-c", 3, 2, 1)
  /\ parse_result.ast = Sub(Sub(N(3), N(2)), N(1))
  /\ out = Printed(Value(0))

\* no name of the tree is `let` or `fn`
RECURSIVE KeywordFree(_)
RECURSIVE KeywordFreeAll(_)
KeywordFreeAll(es) ==
  es = <<>> \/ (KeywordFree(Head(es)) /\ KeywordFreeAll(Tail(es)))

Keywords == {Name("let"), Name("fn")}

KeywordFree(e) ==
  CASE e.t = "Num" -> TRUE
    [] e.t = "Var" -> e.name \notin Keywords
    [] e.t = "Neg" -> KeywordFree(e.a)
    [] e.t = "Call" -> e.name \notin Keywords /\ KeywordFreeAll(e.args)
    [] e.t = "Let" -> e.name \notin Keywords /\ KeywordFree(e.rhs) /\ KeywordFree(e.then)
    [] e.t = "Fn" ->
         /\ e.name \notin Keywords
         /\ \A k \in 1..Len(e.args) : e.args[k] \notin Keywords
         /\ KeywordFree(e.body)
         /\ KeywordFree(e.then)
    [] OTHER -> KeywordFree(e.a) /\ KeywordFree(e.b)

\* C9, as claimed: `let` and `fn` are reserved, so no tree the parser gives
\* has a variable, called function, bound name or parameter named let or fn.
C9_KeywordsReserved ==
  (last.act = "Parse" /\ parse_result.ok) => KeywordFree(parse_result.ast)

\* lines that use let and fn as names, with the trees they parse to
KeywordLines ==
  { <<Src(Programs[26]), Let(Name("let"), N(1), Var(Name("let")))>>,
    <<Src(Programs[27]), Add(Var(Name("fn")), N(1))>>,
    <<Src(Programs[28]),
      Fn(Name("f"), <<Name("let")>>, Var(Name("let")), Call(Name("f"), <<N(1)>>))>>,
    <<Src(Programs[29]), Fn(Name("fn"), <<>>, N(1), Call(Name("fn"), <<>>))>>,
    <<Src(Programs[30]),
      Let(Name("fn"), N(2),
          Mul(Var(Name("fn")), Call(Name("let"), <<Var(Name("fn"))>>)))>>,
    <<Src(Programs[31]), Var(Name("let"))>> }

\* C9, amended: `let` and `fn` are not reserved.  They open a declaration
\* only where a whole declaration follows; in every identifier position (a
\* variable, a called function, the name a let or fn binds, a parameter) the
\* parser takes them as ordinary names, and the lines parse and evaluate.
C9_KeywordsAreIdentifiers ==
  /\ last.act = "Parse" =>
       \A c \in KeywordLines : c[1] = line => parse_result = [ok |-> TRUE, ast |-> c[2]]
  /\ (pc = "done" /\ line = Src(Programs[26])) => out = Printed(Value(1))
  /\ (pc = "done" /\ line = Src(Programs[28])) => out = Printed(Value(1))

C9_Witness ==
  /\ pc = "done"
  /\ line = Src(Programs[26])
  /\ parse_result.ok
  /\ ~KeywordFree(parse_result.ast)
  /\ out = Printed(Value(1))

\* s with every run of whitespace removed, but for one space between two
\* characters that would otherwise join into one identifier or number
RECURSIVE Squeeze(_, _, _)
Squeeze(s, i, acc) ==
  IF i > Len(s) THEN acc
  ELSE IF ~IsWhitespace(s[i]) THEN Squeeze(s, i + 1, Append(acc, s[i]))
  ELSE IF /\ acc # <<>>
          /\ SkipWs(s, i) <= Len(s)
          /\ IsIdentCont(acc[Len(acc)])
          /\ IsIdentCont(s[SkipWs(s, i)])
       THEN Squeeze(s, SkipWs(s, i), Append(acc, " "))
       ELSE Squeeze(s, SkipWs(s, i), acc)

\* C10: whitespace is insignificant: a line made from a line that parses by
\* putting whitespace between two tokens, or at either end, parses to the
\* same tree.
C10_WhitespaceInsignificant ==
  (last.act = "Parse" /\ parser(Squeeze(line, 1, <<>>)).ok)
    => parse_result = parser(Squeeze(line, 1, <<>>))
====
